---------------------------- MODULE Spec2Model ----------------------------
(***************************************************************************)
(* Model of src/main.py: the HAR url extractor, the fetch-to-disk stage    *)
(* and the PDF validator sweep.  Python strings are TLA+ strings; the      *)
(* character at position i of s is SubSeq(s, i, i).                        *)
(***************************************************************************)
EXTENDS Naturals, Sequences, FiniteSets, TLC

(***************************************************************************)
(* Characters and string helpers (Python str methods used by main.py).     *)
(***************************************************************************)
Ch(s, i) == SubSeq(s, i, i)

Quote == "\""

UpperLetters == "ABCDEFGHIJKLMNOPQRSTUVWXYZ"

LowerLetters == "abcdefghijklmnopqrstuvwxyz"

Digits == "0123456789"

\* the printable ASCII characters of codes 32..95
AsciiLow == " !\"#$%&'()*+,-./0123456789:;<=>?@ABCDEFGHIJKLMNOPQRSTUVWXYZ[\\]^_"

\* the printable ASCII characters of codes 97..126
AsciiHigh == "abcdefghijklmnopqrstuvwxyz{|}~"

\* what a byte that is none of these decodes to
Replacement == "\f"

\* the characters of s, as a set
Chars(s) == { Ch(s, i) : i \in 1..Len(s) }

InStr(c, s) == c \in Chars(s)

IndexIn(c, s) == CHOOSE i \in 1..Len(s) : Ch(s, i) = c

UpperSet == Chars(UpperLetters)

LowerOf == [ c \in UpperSet |-> Ch(LowerLetters, IndexIn(c, UpperLetters)) ]

\* str.isspace for the characters of a text file
IsSpace(c) == c \in {" ", "\t", "\n", "\r"}

\* str.isupper on one character
IsUpper(c) == c \in UpperSet

\* str.lower on one character
LowerChar(c) == IF IsUpper(c) THEN LowerOf[c] ELSE c

RECURSIVE LowerFrom(_, _)
LowerFrom(s, i) == IF i > Len(s) THEN "" ELSE LowerChar(Ch(s, i)) \o LowerFrom(s, i + 1)

\* str.lower
Lower(s) == LowerFrom(s, 1)

\* s[i:].startswith(p)
StartsWithAt(s, p, i) == i + Len(p) - 1 <= Len(s) /\ SubSeq(s, i, i + Len(p) - 1) = p

StartsWith(s, p) == StartsWithAt(s, p, 1)

EndsWith(s, p) == Len(p) <= Len(s) /\ SubSeq(s, Len(s) - Len(p) + 1, Len(s)) = p

\* p in s
Contains(s, p) == \E i \in 1..(Len(s) + 1) : StartsWithAt(s, p, i)

\* str.removeprefix
RemovePrefix(s, p) == IF StartsWith(s, p) THEN SubSeq(s, Len(p) + 1, Len(s)) ELSE s

\* str.removesuffix
RemoveSuffix(s, p) == IF EndsWith(s, p) THEN SubSeq(s, 1, Len(s) - Len(p)) ELSE s

\* the least index >= i whose character is in the set cs, Len(s) + 1 when none
RECURSIVE FindChar(_, _, _)
FindChar(s, cs, i) ==
    IF i > Len(s) THEN Len(s) + 1
    ELSE IF Ch(s, i) \in cs THEN i
    ELSE FindChar(s, cs, i + 1)

\* the greatest index whose character is c, 0 when none (str.rfind + 1)
RECURSIVE RFind(_, _, _)
RFind(s, c, i) ==
    IF i = 0 THEN 0
    ELSE IF Ch(s, i) = c THEN i
    ELSE RFind(s, c, i - 1)

\* the least index >= i whose character is not whitespace, Len(s) + 1 when none
RECURSIVE SkipSpace(_, _)
SkipSpace(s, i) ==
    IF i > Len(s) THEN Len(s) + 1
    ELSE IF IsSpace(Ch(s, i)) THEN SkipSpace(s, i + 1)
    ELSE i

\* the greatest index <= i whose character is not whitespace, 0 when none
RECURSIVE SkipSpaceBack(_, _)
SkipSpaceBack(s, i) ==
    IF i = 0 THEN 0
    ELSE IF IsSpace(Ch(s, i)) THEN SkipSpaceBack(s, i - 1)
    ELSE i

\* str.strip
Strip(s) == SubSeq(s, SkipSpace(s, 1), SkipSpaceBack(s, Len(s)))

\* the index after the line break at e: \r\n is one break
AfterBreak(s, e) ==
    IF e < Len(s) /\ Ch(s, e) = "\r" /\ Ch(s, e + 1) = "\n" THEN e + 2 ELSE e + 1

\* the lines of s from index p on
RECURSIVE SplitFrom(_, _)
SplitFrom(s, p) ==
    IF p > Len(s) THEN << >>
    ELSE << SubSeq(s, p, FindChar(s, {"\n", "\r"}, p) - 1) >>
         \o SplitFrom(s, AfterBreak(s, FindChar(s, {"\n", "\r"}, p)))

\* str.splitlines: breaks at \n, \r and \r\n, no empty last line
Splitlines(s) == SplitFrom(s, 1)

\* "\n".join
RECURSIVE JoinLines(_)
JoinLines(ls) ==
    IF ls = << >> THEN ""
    ELSE IF Len(ls) = 1 THEN ls[1]
    ELSE ls[1] \o "\n" \o JoinLines(Tail(ls))

Range(f) == { f[i] : i \in DOMAIN f }

(***************************************************************************)
(* extract_url_lines: re.compile(r'^\s*"url":\s*".*?"', re.MULTILINE)      *)
(***************************************************************************)
UrlKey == "\"url\":"

\* ^ under re.MULTILINE
AtLineStart(text, p) == p = 1 \/ Ch(text, p - 1) = "\n"

\* ".*?" from the opening quote at b: c is the first quote or line feed after it
MatchValue(text, b, c) ==
    IF /\ b <= Len(text) /\ Ch(text, b) = Quote
       /\ c <= Len(text) /\ Ch(text, c) = Quote
    THEN c ELSE 0

\* "url":\s* at a, then the value
MatchKey(text, a, b) ==
    IF StartsWithAt(text, UrlKey, a)
    THEN MatchValue(text, b, FindChar(text, {Quote, "\n"}, b + 1))
    ELSE 0

\* \s* from a, then the key
MatchFrom(text, a) == MatchKey(text, a, SkipSpace(text, a + Len(UrlKey)))

\* the index of the last character of the match that starts at p, 0 when the
\* pattern does not match there
MatchEnd(text, p) == MatchFrom(text, SkipSpace(text, p))

\* pattern.findall from position p on
RECURSIVE FindAll(_, _)
FindAll(text, p) ==
    IF p > Len(text) THEN << >>
    ELSE IF AtLineStart(text, p) /\ MatchEnd(text, p) # 0
         THEN << SubSeq(text, p, MatchEnd(text, p)) >> \o FindAll(text, MatchEnd(text, p) + 1)
         ELSE FindAll(text, p + 1)

extract_url_lines(text) == FindAll(text, 1)

(***************************************************************************)
(* The normalisation helpers of main.py                                    *)
(***************************************************************************)
RECURSIVE remove_whitespace_from_slice(_)
remove_whitespace_from_slice(ls) ==
    IF ls = << >> THEN << >>
    ELSE (IF Strip(ls[1]) # "" THEN << Strip(ls[1]) >> ELSE << >>)
         \o remove_whitespace_from_slice(Tail(ls))

convert_uppercase_to_lowercase(ls) == [ i \in DOMAIN ls |-> Lower(ls[i]) ]

\* set(provided_slice.splitlines()): the list made of it has any order
remove_duplicates_from_slice(s) == Range(Splitlines(s))

\* the lines main() iterates over, as a set (lines 202-211)
NormalizedLines(text) ==
    remove_duplicates_from_slice(JoinLines(
        convert_uppercase_to_lowercase(remove_whitespace_from_slice(extract_url_lines(text)))))

\* the sequences that list every element of the finite set S once
Orderings(S) ==
    { q \in [1..Cardinality(S) -> S] : \A i, j \in 1..Cardinality(S) : q[i] = q[j] => i = j }

UrlPrefix == "\"url\": \""

ThumbSuffix == ".thumb.319.319.png\""

\* main(), line 219
Selected(line) == Contains(line, ".pdf") \/ Contains(line, ".docx")

\* main(), lines 221-223
DeriveUrl(line) == RemoveSuffix(RemovePrefix(line, UrlPrefix), ThumbSuffix)

(***************************************************************************)
(* url_to_filename: urlparse(url).path, os.path.basename, unquote          *)
(***************************************************************************)
RECURSIVE RemoveFrom(_, _, _)
RemoveFrom(s, cs, i) ==
    IF i > Len(s) THEN ""
    ELSE (IF Ch(s, i) \in cs THEN "" ELSE Ch(s, i)) \o RemoveFrom(s, cs, i + 1)

\* s without the characters of the set cs
RemoveChars(s, cs) == RemoveFrom(s, cs, 1)

RECURSIVE LStripChars(_, _)
LStripChars(s, cs) ==
    IF s # "" /\ Ch(s, 1) \in cs THEN LStripChars(SubSeq(s, 2, Len(s)), cs) ELSE s

\* urlsplit's first steps: leading spaces and control characters stripped, tabs
\* and line breaks removed
UrlClean(url) == LStripChars(RemoveChars(url, { "\t", "\n", "\r" }), { " ", "\f" })

Letters == Chars(LowerLetters) \cup UpperSet

SchemeChars == Letters \cup Chars(Digits) \cup { "+", "-", "." }

\* the position of the colon that ends the scheme, 0 when the url has no scheme
SchemeEndAt(u, i) ==
    IF /\ i <= Len(u) /\ i > 1
       /\ Ch(u, 1) \in Letters
       /\ \A n \in 1..(i - 1) : Ch(u, n) \in SchemeChars
    THEN i ELSE 0

SchemeEnd(u) == SchemeEndAt(u, FindChar(u, {":"}, 1))

SchemeOf(u) == Lower(SubSeq(u, 1, SchemeEnd(u) - 1))

UrlScheme(url) == SchemeOf(UrlClean(url))

RestOf(u) == SubSeq(u, SchemeEnd(u) + 1, Len(u))

\* the url after its scheme
AfterScheme(url) == RestOf(UrlClean(url))

NetlocOf(r) ==
    IF StartsWith(r, "//") THEN SubSeq(r, 3, FindChar(r, {"/", "?", "#"}, 3) - 1) ELSE ""

UrlNetloc(url) == NetlocOf(AfterScheme(url))

\* urlparse.uses_params
UsesParams ==
    { "", "ftp", "hdl", "prospero", "http", "imap", "https", "shttp", "rtsp", "rtsps",
      "rtspu", "sip", "sips", "mms", "sftp", "tel" }

\* urlparse(url).path
\* what follows the netloc
AfterNetloc(r) ==
    IF StartsWith(r, "//") THEN SubSeq(r, FindChar(r, {"/", "?", "#"}, 3), Len(r)) ELSE r

\* s up to the first character of the set cs
Before(s, cs) == SubSeq(s, 1, FindChar(s, cs, 1) - 1)

\* the path without the parameters of its last segment
BeforeParams(scheme, path) ==
    IF scheme \in UsesParams
    THEN SubSeq(path, 1, FindChar(path, {";"}, RFind(path, "/", Len(path)) + 1) - 1)
    ELSE path

UrlPath(url) ==
    BeforeParams(UrlScheme(url), Before(Before(AfterNetloc(AfterScheme(url)), {"#"}), {"?"}))

\* urlsplit raises ValueError("Invalid IPv6 URL"); a host in matching brackets is
\* taken to be a well-formed address
UnmatchedBracket(netloc) == InStr("[", netloc) # InStr("]", netloc)

UrlParseRaises(url) == UnmatchedBracket(UrlNetloc(url))

\* os.path.basename
Basename(path) == SubSeq(path, RFind(path, "/", Len(path)) + 1, Len(path))

HexDigits == "0123456789abcdef"

HexSet == Chars(HexDigits)

HexOf == [ c \in HexSet |-> IndexIn(c, HexDigits) - 1 ]

IsHex(c) == LowerChar(c) \in HexSet

HexVal(c) == HexOf[LowerChar(c)]

\* the character of one decoded byte
ByteChar(n) ==
    IF n >= 32 /\ n <= 95 THEN Ch(AsciiLow, n - 31)
    ELSE IF n >= 97 /\ n <= 126 THEN Ch(AsciiHigh, n - 96)
    ELSE Replacement

\* urllib.parse.unquote
RECURSIVE UnquoteFrom(_, _)
UnquoteFrom(s, i) ==
    IF i > Len(s) THEN ""
    ELSE IF /\ Ch(s, i) = "%" /\ i + 2 <= Len(s)
            /\ IsHex(Ch(s, i + 1)) /\ IsHex(Ch(s, i + 2))
         THEN ByteChar(16 * HexVal(Ch(s, i + 1)) + HexVal(Ch(s, i + 2)))
              \o UnquoteFrom(s, i + 3)
         ELSE Ch(s, i) \o UnquoteFrom(s, i + 1)

Unquote(s) == UnquoteFrom(s, 1)

url_to_filename(url) == Unquote(Basename(UrlPath(url)))

(***************************************************************************)
(* The file system: disk maps the path of each regular file to its bytes,  *)
(* dirs is the set of directories.  Paths are relative to the working      *)
(* directory.                                                              *)
(***************************************************************************)
SaveFolder == "PDFs"

\* os.path.join(save_folder, filename)
JoinPath(folder, filename) ==
    IF StartsWith(filename, "/") THEN filename ELSE folder \o "/" \o filename

\* os.path.dirname
Dirname(path) == SubSeq(path, 1, RFind(path, "/", Len(path)) - 1)

\* a test that never finds the file
NeverExists(path, disk) == FALSE

\* a test of the bare file name, in the working directory
ExistsInWorkingDirectory(path, disk) == Basename(path) \in DOMAIN disk

\* check_file_exists: os.path.isfile
check_file_exists(path, disk) == path \in DOMAIN disk

\* open(path, "wb") raises OSError: the name is a directory, or its directory is missing
OpenRaises(path, dirs) ==
    \/ Basename(path) \in { "", ".", ".." }
    \/ path \in dirs
    \/ Dirname(path) \notin dirs

Put(disk, path, bytes) ==
    [ q \in DOMAIN disk \cup { path } |-> IF q = path THEN bytes ELSE disk[q] ]

\* remove_system_file: os.remove
remove_system_file(path, disk) == [ q \in DOMAIN disk \ { path } |-> disk[q] ]

(***************************************************************************)
(* The network.  A behaviour of the server for one GET: the request fails  *)
(* (conn), the status is an error (status), the body arrives whole (ok),   *)
(* or the stream breaks after `sent` bytes of the body (stream).           *)
(***************************************************************************)
PdfTwoPages == "%PDF:2"

PdfNoPages == "%PDF:0"

HtmlPage == "<html>"

Bodies == { PdfTwoPages, HtmlPage }

Behaviours ==
    { [ kind |-> "conn", body |-> "", sent |-> 0 ], [ kind |-> "status", body |-> "", sent |-> 0 ] }
    \cup { [ kind |-> "ok", body |-> b, sent |-> Len(b) ] : b \in Bodies }
    \cup { [ kind |-> "stream", body |-> PdfTwoPages, sent |-> n ] : n \in { 0, 3 } }

\* requests refuses a url that is not http(s) with a host before anything is sent
\* (MissingSchema, InvalidSchema, InvalidURL: all RequestException)
Sendable(url) == UrlScheme(url) \in { "http", "https" } /\ UrlNetloc(url) # ""

(***************************************************************************)
(* download_pdf: the outcome, the exception behind it ("request": raised   *)
(* by requests.get, "status": by raise_for_status, "stream": by            *)
(* iter_content, "os": by open, "value": by urlparse), the file system it  *)
(* leaves and the number of GET requests it sent.  The outcome "raised" is *)
(* an exception that download_pdf does not catch.                          *)
(***************************************************************************)
FetchResult(outcome, error, path, disk, dirs, sent) ==
    [ outcome |-> outcome, error |-> error, path |-> path, disk |-> disk, dirs |-> dirs,
      sent |-> sent ]

\* a handler that catches requests.exceptions.ConnectionError only
CaughtIfConnectionError(error) == error = "request"

\* lines 126-128: except requests.exceptions.RequestException
Caught(error) == error \in { "request", "status", "stream" }

\* how download_pdf ends on an exception
Failure(error, path, disk, dirs, sent) ==
    FetchResult(IF Caught(error) THEN "failed" ELSE "raised", error, path, disk, dirs, sent)

\* a download that reaches the target path only when the body is complete
StreamToTemporaryFile(disk, path, net) ==
    IF net.sent < Len(net.body) THEN disk ELSE Put(disk, path, net.body)

\* lines 115-122: the file is opened "wb" and receives the bytes that arrive
StreamToDisk(disk, path, net) == Put(disk, path, SubSeq(net.body, 1, net.sent))

\* lines 104-129, path being local_file_path and made the directories after
\* os.makedirs
FetchTo(pdf_url, path, disk, made, net) ==
    IF check_file_exists(path, disk) THEN FetchResult("skipped", "none", path, disk, made, 0)
    ELSE IF ~Sendable(pdf_url) THEN Failure("request", path, disk, made, 0)
    ELSE IF net.kind = "conn" THEN Failure("request", path, disk, made, 1)
    ELSE IF net.kind = "status" THEN Failure("status", path, disk, made, 1)
    ELSE IF OpenRaises(path, made) THEN Failure("os", path, disk, made, 1)
    ELSE IF net.kind = "stream"
         THEN Failure("stream", path, StreamToDisk(disk, path, net), made, 1)
         ELSE FetchResult("downloaded", "none", path, StreamToDisk(disk, path, net), made, 1)

download_pdf(pdf_url, disk, dirs, net) ==
    IF UrlParseRaises(pdf_url) THEN Failure("value", "", disk, dirs \cup { SaveFolder }, 0)
    ELSE FetchTo(pdf_url, JoinPath(SaveFolder, url_to_filename(pdf_url)), disk,
                 dirs \cup { SaveFolder }, net)

\* a file opened with mode "w"
WriteOverFile(old, content) == content

\* append_write_to_file: open(mode="a"), write
append_write_to_file(old, content) == old \o content

(***************************************************************************)
(* The validator                                                           *)
(***************************************************************************)
\* fitz.open raises RuntimeError on bytes that are no document
Parses(bytes) == bytes \in { PdfTwoPages, PdfNoPages }

\* doc.page_count
PageCount(bytes) == IF bytes = PdfTwoPages THEN 2 ELSE 0

\* a validator that only opens the document
ValidIfParses(bytes) == Parses(bytes)

validate_pdf_file(bytes) ==
    IF ~Parses(bytes) THEN FALSE
    ELSE IF PageCount(bytes) = 0 THEN FALSE
    ELSE TRUE

\* the working directory of the run
Cwd == "/srv/Docs"

\* os.path.abspath of a relative path
Abspath(path) == Cwd \o "/" \o path

\* the path, relative to the working directory, of an absolute path under it
Relpath(abs) == SubSeq(abs, Len(Cwd) + 2, Len(abs))

\* walk_directory_and_extract_given_file_extension: the files found, as a set
walk_directory_and_extract_given_file_extension(top, extension, disk) ==
    { Abspath(q) : q \in { r \in DOMAIN disk :
          StartsWith(r, top \o "/") /\ EndsWith(Basename(r), extension) } }

\* the whole path in place of its last component
WholePath(path) == path

get_filename_and_extension(path) == Basename(path)

check_upper_case_letter(content) == \E i \in 1..Len(content) : IsUpper(Ch(content, i))

(***************************************************************************)
(* State                                                                   *)
(***************************************************************************)
VARIABLES
    pc,         \* the position of the run
    har,        \* the content of www.dupont.com.har
    url_lines,  \* main()'s url_lines, once normalised
    k,          \* the index in url_lines of the line the loop of line 217 is at
    disk,       \* the regular files: path |-> bytes
    dirs,       \* the directories
    manifest,   \* the content of extracted_urls.txt
    files,      \* main()'s files (line 232)
    j,          \* the index in files of the file the loop of line 236 is at
    removed,    \* the paths reported "Invalid PDF detected ... Deleting file."
    flagged,    \* the paths reported "Uppercase letter found in filename"
    log,        \* history: the calls of download_pdf and of remove_system_file
    seen,       \* history: the calls of validate_pdf_file
    extracted,  \* the result of extract_url_lines
    derived     \* the url and the file name derived from each selected line

vars == << pc, har, url_lines, k, disk, dirs, manifest, files, j, removed, flagged,
           log, seen, extracted, derived >>

\* the greatest number of lines of the .har file
MaxLines == 2

\* the greatest number of calls in a sequence of fetches
MaxCalls == 3

\* the greatest number of pieces a text is made of
MaxPieces == 6

\* lines of a .har file: a thumbnail of a document, a document, a name with
\* an escaped capital, a document named in the query, a page
ThumbLine == "  \"url\": \"https://example.com/a%20b.pdf.thumb.319.319.png\""

PlainLine == "\"url\": \"https://example.com/report.pdf\","

EscapedLine == "\"url\": \"https://example.com/%52eport.PDF.thumb.319.319.png\","

QueryLine == "\"url\": \"https://example.com/dl/?f=x.pdf\","

PageLine == "\"url\": \"https://example.com/\","

HarLines == { ThumbLine, PlainLine, EscapedLine, QueryLine, PageLine }

\* the texts of at most n lines
RECURSIVE TextsOf(_)
TextsOf(n) ==
    IF n = 0 THEN { "" }
    ELSE TextsOf(n - 1)
         \cup { l \o "\n" \o t : l \in HarLines, t \in TextsOf(n - 1) }

EmptyDisk == [ q \in {} |-> "" ]

\* the download directory as an earlier run may have left it
UsedDisk ==
    [ q \in { "PDFs/a b.pdf", "PDFs/Old Report.pdf" } |->
        IF q = "PDFs/a b.pdf" THEN PdfTwoPages ELSE PdfNoPages ]

InitialDisks == { EmptyDisk, UsedDisk }

\* extracted_urls.txt as that earlier run left it
UsedManifest == "https://example.com/a%20b.pdf\nhttps://example.com/old%20report.pdf\n"

\* what the run finds: nothing, or what an earlier run left
InitialStores ==
    { [ disk |-> EmptyDisk, manifest |-> "" ], [ disk |-> UsedDisk, manifest |-> UsedManifest ] }

DirsOf(d) == IF DOMAIN d = {} THEN {} ELSE { SaveFolder }

NoBehaviour == [ kind |-> "none", body |-> "", sent |-> 0 ]

\* one entry of log: the call, what it returned, and the target file before and
\* after it
Call(op, url, net, path, outcome, error, sent, before, after) ==
    [ op |-> op, url |-> url, net |-> net, path |-> path, outcome |-> outcome,
      error |-> error, sent |-> sent,
      existed |-> path \in DOMAIN before, left |-> path \in DOMAIN after,
      bytes |-> IF path \in DOMAIN after THEN after[path] ELSE "",
      touched |-> before # after ]

\* the server behaves only when a request reaches it
FetchCall(url, net, r, before) ==
    Call("fetch", url, IF r.sent = 1 THEN net ELSE NoBehaviour, r.path, r.outcome, r.error,
         r.sent, before, r.disk)

(***************************************************************************)
(* main()                                                                  *)
(***************************************************************************)
Init ==
    /\ pc = "start"
    /\ har \in TextsOf(MaxLines)
    /\ \E st \in InitialStores : disk = st.disk /\ manifest = st.manifest
    /\ dirs = DirsOf(disk)
    /\ url_lines = << >> /\ k = 1
    /\ files = << >> /\ j = 1
    /\ removed = {} /\ flagged = {}
    /\ log = << >> /\ seen = << >>
    /\ extracted = << >> /\ derived = {}

\* lines 199-211
ReadAndNormalize ==
    /\ pc = "start"
    /\ url_lines' \in Orderings(NormalizedLines(har))
    /\ k' = 1
    /\ pc' = "loop"
    /\ UNCHANGED << har, disk, dirs, manifest, files, j, removed, flagged, log, seen,
                    extracted, derived >>

\* lines 217-219, a line that is not selected
SkipLine ==
    /\ pc = "loop" /\ k <= Len(url_lines)
    /\ ~Selected(url_lines[k])
    /\ k' = k + 1
    /\ UNCHANGED << pc, har, url_lines, disk, dirs, manifest, files, j, removed, flagged,
                    log, seen, extracted, derived >>

\* lines 217-229, a selected line; an exception that download_pdf lets through
\* ends the run
FetchLine ==
    /\ pc = "loop" /\ k <= Len(url_lines)
    /\ Selected(url_lines[k])
    /\ \E net \in Behaviours :
       \E line \in { DeriveUrl(url_lines[k]) } :
          IF UrlParseRaises(line)
          THEN /\ pc' = "aborted"
               /\ log' = Append(log, Call("fetch", line, NoBehaviour, "", "raised",
                                           "value", 0, disk, disk))
               /\ UNCHANGED << k, disk, dirs, manifest >>
          ELSE \E r \in { download_pdf(line, disk, dirs, net) } :
                  /\ log' = Append(log, FetchCall(line, net, r, disk))
                  /\ disk' = r.disk
                  /\ dirs' = r.dirs
                  /\ IF r.outcome = "raised"
                     THEN pc' = "aborted" /\ UNCHANGED << k, manifest >>
                     ELSE /\ manifest' = append_write_to_file(manifest, line \o "\n")
                          /\ k' = k + 1
                          /\ pc' = pc
    /\ UNCHANGED << har, url_lines, files, j, removed, flagged, seen, extracted, derived >>

\* lines 232-234; os.walk lists the files in any order
Walk ==
    /\ pc = "loop" /\ k > Len(url_lines)
    /\ files' \in Orderings(walk_directory_and_extract_given_file_extension(
                                SaveFolder, ".pdf", disk))
    /\ j' = 1
    /\ pc' = "sweep"
    /\ UNCHANGED << har, url_lines, k, disk, dirs, manifest, removed, flagged, log, seen,
                    extracted, derived >>

\* lines 236-248, one file
SweepFile ==
    /\ pc = "sweep" /\ j <= Len(files)
    /\ \E pdf_file \in { files[j] } :
       \E bytes \in { disk[Relpath(pdf_file)] } :
       \E valid \in { validate_pdf_file(bytes) } :
           /\ seen' = Append(seen, [ path |-> pdf_file, bytes |-> bytes, valid |-> valid ])
           /\ IF valid = FALSE
              THEN /\ disk' = remove_system_file(Relpath(pdf_file), disk)
                   /\ removed' = removed \cup { pdf_file }
              ELSE UNCHANGED << disk, removed >>
           /\ IF check_upper_case_letter(get_filename_and_extension(pdf_file))
              THEN flagged' = flagged \cup { pdf_file }
              ELSE UNCHANGED flagged
    /\ j' = j + 1
    /\ UNCHANGED << pc, har, url_lines, k, dirs, manifest, files, log, extracted, derived >>

\* the end of main()
Finish ==
    /\ pc = "sweep" /\ j > Len(files)
    /\ pc' = "done"
    /\ UNCHANGED << har, url_lines, k, disk, dirs, manifest, files, j, removed, flagged,
                    log, seen, extracted, derived >>

Next == ReadAndNormalize \/ SkipLine \/ FetchLine \/ Walk \/ SweepFile \/ Finish

Spec == Init /\ [][Next]_vars

(***************************************************************************)
(* download_pdf called again and again, with remove_system_file deleting   *)
(* files in between                                                        *)
(***************************************************************************)
\* a line of a .har file written without the space after the colon
MinifiedLine == "\"url\":\"https://example.com/c.pdf\""

\* the urls main() derives from the lines above
FetchUrls ==
    { DeriveUrl(l) : l \in { n \in UNION { NormalizedLines(h) :
                                                h \in { ThumbLine, QueryLine, MinifiedLine } } :
                                Selected(n) } }

FetchInit ==
    /\ pc = "calls"
    /\ har = ""
    /\ disk \in InitialDisks
    /\ dirs = DirsOf(disk)
    /\ manifest = ""
    /\ url_lines = << >> /\ k = 1
    /\ files = << >> /\ j = 1
    /\ removed = {} /\ flagged = {}
    /\ log = << >> /\ seen = << >>
    /\ extracted = << >> /\ derived = {}

CallFetch ==
    /\ pc = "calls" /\ Len(log) < MaxCalls
    /\ \E url \in FetchUrls, net \in Behaviours :
       \E r \in { download_pdf(url, disk, dirs, net) } :
              /\ log' = Append(log, FetchCall(url, net, r, disk))
              /\ disk' = r.disk
              /\ dirs' = r.dirs
    /\ UNCHANGED << pc, har, url_lines, k, manifest, files, j, removed, flagged, seen,
                    extracted, derived >>

CallRemove ==
    /\ pc = "calls" /\ Len(log) < MaxCalls
    /\ \E path \in DOMAIN disk :
          /\ disk' = remove_system_file(path, disk)
          /\ log' = Append(log, Call("remove", "", NoBehaviour, path, "removed", "none", 0,
                                      disk, disk'))
    /\ UNCHANGED << pc, har, url_lines, k, dirs, manifest, files, j, removed, flagged, seen,
                    extracted, derived >>

FetchNext == CallFetch \/ CallRemove

FetchSpec == FetchInit /\ [][FetchNext]_vars

(***************************************************************************)
(* The extractor alone, on every text made of a few pieces                 *)
(***************************************************************************)
Pieces == { UrlKey, " ", Quote, "\n", "A.pdf", ".thumb.319.319.png" }

\* the texts made of at most n pieces
RECURSIVE PieceTexts(_)
PieceTexts(n) ==
    IF n = 0 THEN { "" }
    ELSE PieceTexts(n - 1) \cup { p \o t : p \in Pieces, t \in PieceTexts(n - 1) }

ExtractInit ==
    /\ pc = "extract"
    /\ har \in PieceTexts(MaxPieces)
    /\ disk = EmptyDisk
    /\ dirs = {}
    /\ manifest = ""
    /\ url_lines = << >> /\ k = 1
    /\ files = << >> /\ j = 1
    /\ removed = {} /\ flagged = {}
    /\ log = << >> /\ seen = << >>
    /\ extracted = << >> /\ derived = {}

\* line 202
Extract ==
    /\ pc = "extract"
    /\ extracted' = extract_url_lines(har)
    /\ pc' = "normalize"
    /\ UNCHANGED << har, url_lines, k, disk, dirs, manifest, files, j, removed, flagged,
                    log, seen, derived >>

\* lines 205-211
Normalize ==
    /\ pc = "normalize"
    /\ url_lines' \in Orderings(remove_duplicates_from_slice(JoinLines(
           convert_uppercase_to_lowercase(remove_whitespace_from_slice(extracted)))))
    /\ pc' = "derive"
    /\ UNCHANGED << har, k, disk, dirs, manifest, files, j, removed, flagged, log, seen,
                    extracted, derived >>

\* lines 219-225, for each selected line
Derive ==
    /\ pc = "derive"
    /\ derived' = { [ line |-> l, url |-> DeriveUrl(l),
                      filename |-> IF UrlParseRaises(DeriveUrl(l)) THEN ""
                                   ELSE url_to_filename(DeriveUrl(l)) ] :
                    l \in { n \in Range(url_lines) : Selected(n) } }
    /\ pc' = "derived"
    /\ UNCHANGED << har, url_lines, k, disk, dirs, manifest, files, j, removed, flagged,
                    log, seen, extracted >>

ExtractNext == Extract \/ Normalize \/ Derive

ExtractSpec == ExtractInit /\ [][ExtractNext]_vars

(***************************************************************************)
(* Properties of the extractor                                             *)
(***************************************************************************)
\* the source lines of a text: what lies between the line feeds
RECURSIVE SourceLines(_)
SourceLines(text) ==
    LET e == FindChar(text, {"\n"}, 1)
    IN  IF e > Len(text) THEN << text >>
        ELSE << SubSeq(text, 1, e - 1) >> \o SourceLines(SubSeq(text, e + 1, Len(text)))

\* the pattern applied to each source line on its own
RECURSIVE ScanEachLine(_)
ScanEachLine(ls) ==
    IF ls = << >> THEN << >>
    ELSE (IF MatchEnd(ls[1], 1) # 0 THEN << SubSeq(ls[1], 1, MatchEnd(ls[1], 1)) >> ELSE << >>)
         \o ScanEachLine(Tail(ls))

\* C7: extract_url_lines returns, in source order, exactly the lines of the text
\* that have the shape of a "url" field, each line scanned independently of the
\* others: no returned element spans more than one source line, and the result
\* is what scanning the source lines one by one gives.
C7_LinesScannedIndependently ==
    pc # "extract" =>
        /\ \A i \in DOMAIN extracted : ~Contains(extracted[i], "\n")
        /\ extracted = ScanEachLine(SourceLines(har))

\* the text of a line after the quote that opens the value of its "url" field
AfterValueQuote(line) == SubSeq(line, SkipSpace(line, Len(UrlKey) + 1) + 1, Len(line))

\* C8: for every extracted and normalised line of a "url" field that is selected,
\* the derived url is the text after the quote that opens the value, without
\* the thumbnail suffix when the line ends with it.
C8_DerivedUrlIsTheValue ==
    pc = "derived" =>
        \A d \in derived :
            StartsWith(d.line, UrlKey) =>
                d.url = RemoveSuffix(AfterValueQuote(d.line), ThumbSuffix)

(***************************************************************************)
(* Properties of download_pdf, under FetchSpec                             *)
(***************************************************************************)
\* two calls of download_pdf in a row with the same url
TwiceInARow(i) ==
    /\ i + 1 \in DOMAIN log
    /\ log[i].op = "fetch" /\ log[i + 1].op = "fetch"
    /\ log[i].url = log[i + 1].url

\* C1, as claimed: two calls of download_pdf in a row with the same url send
\* exactly one GET in total and the second returns "skipped", whatever the first
\* call returned.  Read in the claim's favour: the url is one requests can
\* send, the target file is not there before the first call, and the first
\* call returns.
C1_ExactlyOneRequest ==
    \A i \in DOMAIN log :
        (/\ TwiceInARow(i)
         /\ Sendable(log[i].url) /\ ~log[i].existed /\ log[i].outcome # "raised") =>
            /\ log[i].sent + log[i + 1].sent = 1
            /\ log[i + 1].outcome = "skipped"

\* C1, amended: of two calls in a row with the same url, when the first leaves
\* a regular file at the target path the second returns "skipped" and sends
\* nothing, so that both send at most one GET (one exactly when the file was
\* not there before the first call); when the first fails on its request or on
\* the status, it leaves no file and the second sends a GET of its own.
C1_OneRequestOnceTheFileExists ==
    \A i \in DOMAIN log :
        TwiceInARow(i) =>
            /\ log[i].left =>
                  /\ log[i + 1].outcome = "skipped" /\ log[i + 1].sent = 0
                  /\ log[i].sent = (IF log[i].existed THEN 0 ELSE 1)
            /\ (log[i].sent = 1 /\ log[i].error \in { "request", "status" }) =>
                  /\ ~log[i].left
                  /\ log[i + 1].sent = 1

C1_Witness ==
    \E i \in DOMAIN log :
        /\ TwiceInARow(i)
        /\ log[i].outcome = "downloaded" /\ log[i + 1].outcome = "skipped"
        /\ log[i].sent + log[i + 1].sent = 1

\* C2: when the target path is a regular file as download_pdf is called, the
\* call returns "skipped", sends no request and leaves every file as it was.
C2_ExistingFileIsSkipped ==
    \A i \in DOMAIN log :
        (log[i].op = "fetch" /\ log[i].existed) =>
            /\ log[i].outcome = "skipped"
            /\ log[i].sent = 0
            /\ ~log[i].touched
            /\ log[i].left

C2_Witness ==
    \E i \in DOMAIN log :
        /\ log[i].op = "fetch" /\ log[i].existed
        /\ log[i].outcome = "skipped"
        /\ i = Len(log) /\ log[i].bytes = PdfTwoPages

\* no remove_system_file of the path between calls a and b
NotRemovedBetween(path, a, b) ==
    \A m \in (a + 1)..(b - 1) : ~(log[m].op = "remove" /\ log[m].path = path)

\* C10: a download that breaks while the body streams leaves the truncated
\* file at the target path, and a later call for the same url, the file not
\* removed in between, returns "skipped" and sends no request.
C10_TruncatedFileBlocksRetry ==
    \A a \in DOMAIN log :
        (log[a].op = "fetch" /\ log[a].error = "stream") =>
            /\ log[a].outcome = "failed"
            /\ log[a].left
            /\ log[a].bytes = SubSeq(log[a].net.body, 1, log[a].net.sent)
            /\ Len(log[a].bytes) < Len(log[a].net.body)
            /\ \A b \in DOMAIN log :
                  (/\ b > a /\ log[b].op = "fetch" /\ log[b].url = log[a].url
                   /\ NotRemovedBetween(log[a].path, a, b)) =>
                      /\ log[b].outcome = "skipped"
                      /\ log[b].sent = 0
                      /\ log[b].bytes = log[a].bytes

C10_Witness ==
    \E a, b \in DOMAIN log :
        /\ b > a + 1
        /\ log[a].op = "fetch" /\ log[a].error = "stream" /\ log[a].bytes = "%PD"
        /\ log[b].op = "fetch" /\ log[b].url = log[a].url
        /\ NotRemovedBetween(log[a].path, a, b)
        /\ log[b].outcome = "skipped"

(***************************************************************************)
(* Properties of a run of main(), under Spec                               *)
(***************************************************************************)
\* the urls of the selected lines among the first n of url_lines, in order
RECURSIVE UrlsOf(_, _)
UrlsOf(ls, n) ==
    IF n = 0 THEN << >>
    ELSE UrlsOf(ls, n - 1) \o (IF Selected(ls[n]) THEN << DeriveUrl(ls[n]) >> ELSE << >>)

\* the calls of download_pdf that returned
Returned(c) == c.op = "fetch" /\ c.outcome \in { "skipped", "downloaded", "failed" }

RECURSIVE UrlsReturned(_)
UrlsReturned(cs) ==
    IF cs = << >> THEN << >>
    ELSE (IF Returned(cs[1]) THEN << cs[1].url >> ELSE << >>) \o UrlsReturned(Tail(cs))

\* the urls as lines of text
RECURSIVE Written(_)
Written(urls) == IF urls = << >> THEN "" ELSE urls[1] \o "\n" \o Written(Tail(urls))

\* the manifest after the urls have been appended to what it held at the start
ManifestIs(urls) ==
    /\ \E st \in InitialStores : manifest = st.manifest \o Written(urls)
    /\ \A i \in DOMAIN urls : FindChar(urls[i], {"\n", "\r"}, 1) > Len(urls[i])
    /\ urls = UrlsReturned(log)

\* C3: the manifest is what it held at the start followed by the url of every
\* selected line processed so far, once each, as one line each and in the
\* order processed, whether download_pdf returned skipped, downloaded or failed
\* (a selected line is processed when download_pdf has returned for it); and
\* no step removes or rewrites what the manifest holds.
C3_ManifestRecordsEveryFetch ==
    /\ [](pc \notin { "start" } => ManifestIs(UrlsOf(url_lines, k - 1)))
    /\ [][StartsWith(manifest', manifest)]_vars

C3_Witness ==
    /\ pc = "done"
    /\ Len(log) = 2
    /\ log[1].outcome = "failed" /\ log[2].outcome = "skipped"
    /\ manifest = UsedManifest \o log[1].url \o "\n" \o log[2].url \o "\n"

TransportErrors == { "request", "status", "stream" }

\* every call that failed on the transport is followed by the next line: urls
\* are those of the selected lines the loop has passed
Contained(urls) ==
    \A i \in DOMAIN log :
        log[i].error \in TransportErrors =>
            /\ log[i].outcome = "failed"
            /\ i <= Len(urls)
            /\ urls[i] = log[i].url

\* C4: a failure of the request, of the status or of the stream makes
\* download_pdf return "failed" and the loop move on to the next line: every
\* call but the one that ends the run early stands for one selected line passed,
\* and the call that ends a run early raised an exception of another kind
\* (OSError, ValueError); and the validator starts when every line has been
\* processed, the lines after a failed one included.
C4_TransportFailureIsContained ==
    /\ Contained(UrlsOf(url_lines, k - 1))
    /\ pc = "aborted" => log[Len(log)].error \in { "os", "value" }
    /\ pc \in { "sweep", "done" } =>
          /\ k = Len(url_lines) + 1
          /\ UrlsReturned(log) = UrlsOf(url_lines, Len(url_lines))

C4_Witness ==
    /\ pc = "done"
    /\ Len(log) = 2
    /\ log[1].error = "status" /\ log[2].outcome = "downloaded"
    /\ Len(seen) > 0

\* the entries of seen for one path
SeenOf(p) == { i \in DOMAIN seen : seen[i].path = p }

\* C5: when the sweep is over, every enumerated file has been validated once;
\* it is on disk if and only if the validator returned true for it, which is
\* when its bytes parse and hold at least one page; it is reported removed if
\* and only if the validator returned false; and the sweep went through every
\* file, those after a file that does not parse included.
C5_SweepLeavesValidOrRemoved ==
    pc = "done" =>
        /\ Len(seen) = Len(files)
        /\ \A n \in DOMAIN files :
              /\ seen[n].path = files[n]
              /\ SeenOf(files[n]) = { n }
              /\ seen[n].valid = (Parses(seen[n].bytes) /\ PageCount(seen[n].bytes) >= 1)
              /\ (Relpath(files[n]) \in DOMAIN disk) = seen[n].valid
              /\ (files[n] \in removed) = ~seen[n].valid
              /\ seen[n].valid => disk[Relpath(files[n])] = seen[n].bytes

C5_Witness ==
    /\ pc = "done"
    /\ Len(files) = 3
    /\ ~Parses(seen[1].bytes) /\ seen[1].path \in removed
    /\ seen[2].bytes = PdfNoPages /\ seen[2].path \in removed
    /\ seen[3].valid /\ Relpath(seen[3].path) \in DOMAIN disk

\* C6: when the run is over, every file that download_pdf created for a
\* selected line that holds ".pdf" has been inspected by the validator: it was
\* enumerated, and is either on disk and valid or removed.
C6_FetchedPdfIsValidated ==
    pc = "done" =>
        \A i \in DOMAIN log :
            (/\ log[i].op = "fetch" /\ Contains(log[i].url, ".pdf")
             /\ ~log[i].existed /\ log[i].left) =>
                \E n \in DOMAIN seen : seen[n].path = Abspath(log[i].path)

HasUpper(name) == \E i \in 1..Len(name) : Ch(name, i) \in UpperSet

\* the part of a path after its last slash
BareName(p) == SubSeq(p, RFind(p, "/", Len(p)) + 1, Len(p))

\* C9: when the sweep is over the flagged files are the enumerated files whose
\* bare name holds an uppercase letter, removed or not ("Report.pdf" is one,
\* "report.pdf" is not); and a step of the sweep changes the disk only by
\* removing the file it is at when that file is invalid.
C9_FlaggedIffUppercase ==
    /\ [](pc = "done" =>
            /\ flagged = { p \in Range(files) : HasUpper(BareName(p)) }
            /\ Abspath("PDFs/Report.pdf") \in Range(files) =>
                  Abspath("PDFs/Report.pdf") \in flagged
            /\ Abspath("PDFs/a b.pdf") \notin flagged)
    /\ [][pc = "sweep" =>
            /\ DOMAIN disk' \subseteq DOMAIN disk
            /\ \A q \in DOMAIN disk :
                  \/ q \in DOMAIN disk' /\ disk'[q] = disk[q]
                  \/ /\ q \notin DOMAIN disk'
                     /\ j <= Len(files) /\ q = Relpath(files[j])
                     /\ ~validate_pdf_file(disk[q])]_vars

C9_Witness ==
    /\ pc = "done"
    /\ \E p \in flagged : p \in removed
    /\ \E p \in flagged : Relpath(p) \in DOMAIN disk /\ BareName(p) = "Report.pdf"
    /\ \E p \in Range(files) : p \notin flagged /\ BareName(p) = "a b.pdf"

=============================================================================
